---- MODULE Spec2Model ----
(***************************************************************************)
(* A model of OptML: the Keras importer (optml/neuralnet/keras_reader.py), *)
(* the ReLU formulations (optml/neuralnet/relu.py) and the neural-net      *)
(* definitions and block of pyoml/opt/neuralnet.py.                        *)
(*                                                                         *)
(* Python dicts are TLA+ functions (DOMAIN = key set), Python lists and    *)
(* ranges are sequences, real-valued quantities are integers.              *)
(***************************************************************************)
EXTENDS Integers, Sequences, FiniteSets, TLC

VARIABLES
    nn,                 \* importer: the Keras Sequential model handed to load_keras_sequential
    net,                \* importer: the NetworkDefinition it returned
    network_structure,  \* relu.py: the NetworkDefinition a formulation is built for
    block,              \* relu.py: the Pyomo block the formulation is built on
    rcall,              \* relu.py: the last build call, its M and what it raised
    defn,               \* neuralnet.py: a NeuralNetInterface definition object
    nblock,             \* neuralnet.py: a NeuralNetBlock (NeuralBlockData)
    ncall               \* neuralnet.py: the last call on them, its arguments and what it raised

vars == <<nn, net, network_structure, block, rcall, defn, nblock, ncall>>

\* ------------------------------------------------------------------ bounds
MaxLayers == 3      \* dense layers of a Keras model
MaxWidth == 3       \* units of a layer, and inputs of a model
MaxReluNodes == 2   \* non-input nodes of a network given to the ReLU builders
MaxM == 3           \* largest Big-M constant tried
MaxAbs == 5         \* node values range over -MaxAbs..MaxAbs
MaxCalls == 2       \* set_weights calls on one definition
MaxVars == 2        \* size of an IndexedVar a caller binds
MaxX == 2           \* network inputs range over -MaxX..MaxX
MaxIn == 5          \* inputs of the worked two-input network range over -MaxIn..MaxIn
MaxKerasLayers == 2 \* dense layers of a model given to set_weights_keras
MaxKerasWidth == 2  \* units of such a layer, and inputs of such a model

\* mpec_bound=0.0, the default of build_relu_complementarity_formulation
MpecBound == 0

\* ------------------------------------------------------------- python helpers
\* range(a, b) as the sequence a, a+1, ..., b-1
Range(a, b) == [k \in 1..(IF b > a THEN b - a ELSE 0) |-> a + k - 1]

\* the set of elements of a sequence
Elems(s) == {s[k] : k \in 1..Len(s)}

\* the keys of a dict with integer keys, in insertion (here ascending) order
RECURSIVE Keys(_)
Keys(d) ==
    IF DOMAIN d = {} THEN <<>>
    ELSE LET m == CHOOSE x \in DOMAIN d : \A y \in DOMAIN d : x <= y
         IN  <<m>> \o Keys([x \in DOMAIN d \ {m} |-> d[x]])

\* sum of a sequence of integers
RECURSIVE SumSeq(_)
SumSeq(s) == IF Len(s) = 0 THEN 0 ELSE s[1] + SumSeq(Tail(s))

\* Python's None and a callable object, among values that are otherwise strings
PyNone == "<None>"
PyCallable == "<function>"
IsStr(a) == a \notin {PyNone, PyCallable}

\* ---------------------------------------------- Pyomo expressions and constraints
\* Expression trees, as the builders write them
Var(name, i) == [op |-> "var", name |-> name, val |-> i, args |-> <<>>]
Const(c) == [op |-> "const", name |-> "", val |-> c, args |-> <<>>]
Sum(terms) == [op |-> "sum", name |-> "", val |-> 0, args |-> terms]
Mul(a, b) == [op |-> "mul", name |-> "", val |-> 0, args |-> <<a, b>>]
Sub(a, b) == [op |-> "sub", name |-> "", val |-> 0, args |-> <<a, b>>]
Div(a, b) == [op |-> "div", name |-> "", val |-> 0, args |-> <<a, b>>]
Fn(f, a) == [op |-> "fn", name |-> f, val |-> 0, args |-> a]

\* scalar functions with an integer meaning: the identity, a saturating
\* function (the integer shape of tanh) and the square
ScalarFns == {"identity", "hardtanh", "square"}
ApplyFn(f, x) ==
    CASE f = "identity" -> x
      [] f = "hardtanh" -> (IF x > 1 THEN 1 ELSE IF x < -1 THEN -1 ELSE x)
      [] f = "square" -> x * x

\* the value of an expression under a valuation v of the variables
RECURSIVE Eval(_, _)
Eval(e, v) ==
    CASE e.op = "const" -> e.val
      [] e.op = "var" -> v[<<e.name, e.val>>]
      [] e.op = "sum" -> SumSeq([k \in 1..Len(e.args) |-> Eval(e.args[k], v)])
      [] e.op = "mul" -> Eval(e.args[1], v) * Eval(e.args[2], v)
      [] e.op = "sub" -> Eval(e.args[1], v) - Eval(e.args[2], v)
      [] e.op = "fn" -> ApplyFn(e.name, Eval(e.args[1], v))

\* the constants written in an expression
RECURSIVE Consts(_)
Consts(e) ==
    IF e.op = "const" THEN {e.val}
    ELSE UNION {Consts(e.args[k]) : k \in 1..Len(e.args)}

\* a relational expression lhs rel rhs
Constraint(lhs, rel, rhs) == [lhs |-> lhs, rel |-> rel, rhs |-> rhs]

Sat(c, v) ==
    LET l == Eval(c.lhs, v)
        r == Eval(c.rhs, v)
    IN  CASE c.rel = ">=" -> l >= r
          [] c.rel = "<=" -> l <= r
          [] c.rel = "==" -> l = r

\* within=pyo.Binary
Binary == {0, 1}

\* ------------------------------------------------ optml/neuralnet/keras_reader.py
\* activation names a Keras layer config may carry
KerasActivations == {"linear", "relu"}

\* A dense layer: the shape of its kernel and its config's activation.  Its
\* kernel entry [j,i] and bias entry [i] are kept symbolically, by position.
DenseLayer(name, n_in, n_out, act) ==
    [name |-> name, shape |-> <<n_in, n_out>>, activation |-> act]

\* l.get_weights(): <<weights, biases>>
get_weights(l) ==
    << [ji \in (0..(l.shape[1] - 1)) \X (0..(l.shape[2] - 1)) |-> <<"W", l.name, ji[1], ji[2]>>],
       [i \in 0..(l.shape[2] - 1) |-> <<"B", l.name, i>>] >>

\* Sequential models: every layer's input width is the previous layer's output width
IsSequential(m) ==
    \A k \in 2..Len(m) : m[k].shape[1] = m[k - 1].shape[2]

\* a loader advancing layer_offset by the layer's own width
LayerOffsetStepNodes(n_layer_inputs, n_layer_nodes) == n_layer_nodes

\* the increment of layer_offset at the end of one pass of the loop over layers
LayerOffsetStep(n_layer_inputs, n_layer_nodes) == n_layer_inputs

\* a loader reading n_outputs off the rows of the last kernel
ReadNOutputsKernelRows(m) == Len(Range(0, m[Len(m)].shape[1]))

\* n_outputs as load_keras_sequential reads it: the length of the last layer's bias
ReadNOutputs(m) == Len(Range(0, m[Len(m)].shape[2]))

\* one pass of `for l in nn.layers` over the loader's locals st
LoadLayer(st, l) ==
    LET weights == get_weights(l)[1]
        biases == get_weights(l)[2]
        n_layer_inputs == l.shape[1]
        n_layer_nodes == l.shape[2]
        layer_nodes == Range(st.node_id_offset, st.node_id_offset + n_layer_nodes)
        ids == Elems(layer_nodes)
        layer_w(i) == [key \in {j + st.layer_offset : j \in 0..(n_layer_inputs - 1)} |->
                          weights[<<key - st.layer_offset, i>>]]
    IN  [st EXCEPT
            !.w = [id \in ids |-> layer_w(id - st.node_id_offset)] @@ st.w,
            !.b = [id \in ids |-> biases[id - st.node_id_offset]] @@ st.b,
            !.a = [id \in ids |-> l.activation] @@ st.a,
            !.layer_node_ids = [id \in ids |-> layer_nodes] @@ st.layer_node_ids,
            !.node_id_offset = st.node_id_offset + n_layer_nodes,
            !.layer_offset = st.layer_offset + LayerOffsetStep(n_layer_inputs, n_layer_nodes)]

RECURSIVE LoadLayers(_, _, _)
LoadLayers(st, m, k) ==
    IF k > Len(m) THEN st ELSE LoadLayers(LoadLayer(st, m[k]), m, k + 1)

\* NetworkDefinition(...): the value object holding what the importer passes
NetworkDefinition(n_inputs, n_hidden, n_outputs, weights, biases, activations, layer_node_ids) ==
    [n_inputs |-> n_inputs, n_hidden |-> n_hidden, n_outputs |-> n_outputs,
     weights |-> weights, biases |-> biases, activations |-> activations,
     layer_node_ids |-> layer_node_ids]

load_keras_sequential(m) ==
    LET n_inputs == m[1].shape[1]
        n_outputs == ReadNOutputs(m)
        st0 == [node_id_offset |-> n_inputs, layer_offset |-> 0,
                w |-> <<>>, b |-> <<>>, a |-> <<>>, layer_node_ids |-> <<>>]
        st == LoadLayers(st0, m, 1)
        n_nodes == Cardinality(DOMAIN st.a) + n_inputs
        n_hidden == n_nodes - n_inputs - n_outputs
    IN  NetworkDefinition(n_inputs, n_hidden, n_outputs, st.w, st.b, st.a, st.layer_node_ids)

NoNet == NetworkDefinition(0, 0, 0, <<>>, <<>>, <<>>, <<>>)

\* the models the importer is given
KerasModels ==
    UNION { { [k \in 1..L |-> DenseLayer(k, IF k = 1 THEN n0 ELSE ws[k - 1], ws[k], as[k])] :
                n0 \in 1..MaxWidth, ws \in [1..L -> 1..MaxWidth], as \in [1..L -> KerasActivations] } :
            L \in 1..MaxLayers }

IdleImporter == nn = <<>> /\ net = NoNet

\* a call load_keras_sequential(m)
LoadKeras ==
    /\ nn = <<>>
    /\ \E m \in KerasModels :
        /\ IsSequential(m)
        /\ nn' = m
        /\ net' = load_keras_sequential(m)
    /\ UNCHANGED <<network_structure, block, rcall, defn, nblock, ncall>>

\* ------------------------------------------------------ optml/utils.py
\* the keys of pyomo_activations
pyomo_activations == {"tanh", "sigmoid", "softplus", "softmax"}

\* pyomo_activations[name](xi, *x)
AFunc(name, xi, x) ==
    CASE name = "tanh" -> Fn("tanh", <<xi>>)
      [] name = "sigmoid" ->
            Div(Const(1), Sum(<<Const(1), Fn("exp", <<Sub(Const(0), xi)>>)>>))
      [] name = "softplus" -> Fn("log", <<Sum(<<Fn("exp", <<xi>>), Const(1)>>)>>)
      [] name = "softmax" ->
            Div(Fn("exp", <<xi>>), Sum([k \in 1..Len(x) |-> Fn("exp", <<x[k]>>)]))

\* ------------------------------------------------ optml/neuralnet/relu.py
\* a block nothing has been built on
FreshBlock ==
    [components |-> {}, hidden_output_nodes |-> <<>>,
     relu_nodes |-> <<>>, linear_nodes |-> <<>>, nonlinear_nodes |-> <<>>,
     q |-> [index |-> {}, within |-> {}],
     cons |-> <<>>, complementarity |-> <<>>, mpec_bound |-> 0]

\* build_full_space_formulation(block, net, skip_activations=True): node sets,
\* z and zhat variables and the affine constraints, no z-from-zhat relation
build_full_space_formulation(b, n) ==
    LET n_nodes == n.n_inputs + n.n_hidden + n.n_outputs
        inputs == Range(0, n.n_inputs)
        hidden_output == Range(n.n_inputs, n_nodes)
        affine(i) == Constraint(Var("zhat", i), "==",
                        Sum(<<Sum([k \in 1..Len(Keys(n.weights[i])) |->
                                  Mul(Const(n.weights[i][Keys(n.weights[i])[k]]),
                                      Var("z", Keys(n.weights[i])[k]))]),
                              Const(n.biases[i])>>))
    IN  [b EXCEPT
            !.components = @ \cup {"nodes", "hidden_output_nodes", "z", "zhat",
                                   "_inputs", "_linear", "_outputs"},
            !.hidden_output_nodes = hidden_output,
            !.cons = [key \in {<<"_linear", i>> : i \in Elems(hidden_output)} |-> affine(key[2])]
                     @@ [key \in {<<"_inputs", i>> : i \in Elems(inputs)} |->
                            Constraint(Var("z", key[2]), "==", Var("inputs", key[2]))]
                     @@ [key \in {<<"_outputs", i>> : i \in (n_nodes - n.n_outputs)..(n_nodes - 1)} |->
                            Constraint(Var("outputs", key[2] - (n_nodes - n.n_outputs)), "==", Var("z", key[2]))]
                     @@ @]

\* an upper bound with the indicator the wrong way round
z_hat_negative_swapped(i, M) ==
    Constraint(Var("z", i), "<=", Mul(Const(M), Var("q", i)))

\* an upper bound written with a widened constant
z_hat_positive_widened(i, M) ==
    Constraint(Var("z", i), "<=", Sum(<<Var("zhat", i), Mul(Const(M + 1), Var("q", i))>>))

\* the four constraints written for a ReLU node, and the one for a linear node
z_lower_bound(i) == Constraint(Var("z", i), ">=", Const(0))
z_hat_bound(i) == Constraint(Var("z", i), ">=", Var("zhat", i))
z_hat_positive(i, M) ==
    Constraint(Var("z", i), "<=", Sum(<<Var("zhat", i), Mul(Const(M), Var("q", i))>>))
z_hat_negative(i, M) ==
    Constraint(Var("z", i), "<=", Mul(Const(M), Sub(Const(1), Var("q", i))))
linear_activation(i) == Constraint(Var("z", i), "==", Var("zhat", i))

IsLinearSpec(activations, i) ==
    i \notin DOMAIN activations \/ activations[i] = PyNone \/ activations[i] = "linear"

\* a Big-M builder that takes any other activation for a ReLU
MipOtherAsRelu(acc, i) == [acc EXCEPT !.relu_nodes = Append(@, i)]

\* what the Big-M builder does with a node that is neither linear nor relu
MipOther(acc, i) == [acc EXCEPT !.raised = "ValueError"]

\* the loop sorting block.hidden_output_nodes into linear_nodes and relu_nodes
RECURSIVE ClassifyMip(_, _, _, _)
ClassifyMip(activations, nodes, k, acc) ==
    IF k > Len(nodes) \/ acc.raised # "none" THEN acc
    ELSE LET i == nodes[k] IN
         ClassifyMip(activations, nodes, k + 1,
            IF IsLinearSpec(activations, i)
              THEN [acc EXCEPT !.linear_nodes = Append(@, i)]
            ELSE IF activations[i] = "relu"
              THEN [acc EXCEPT !.relu_nodes = Append(@, i)]
            ELSE MipOther(acc, i))

\* a builder that hands the block back as it was given when it fails
MipFailureRolledBack(b0, b1, raised) == [block |-> b0, raised |-> raised]

\* the raise inside the sorting loop leaves build_relu_mip_formulation at once:
\* the block is as build_full_space_formulation left it
MipFailure(b0, b1, raised) == [block |-> b1, raised |-> raised]

build_relu_mip_formulation(b0, n, M) ==
    LET b1 == build_full_space_formulation(b0, n)
        cl == ClassifyMip(n.activations, b1.hidden_output_nodes, 1,
                 [linear_nodes |-> <<>>, relu_nodes |-> <<>>, raised |-> "none"])
        relu == Elems(cl.relu_nodes)
        lin == Elems(cl.linear_nodes)
    IN  IF cl.raised # "none" THEN MipFailure(b0, b1, cl.raised)
        ELSE [raised |-> "none",
              block |-> [b1 EXCEPT
                !.components = @ \cup {"relu_nodes", "linear_nodes", "q", "_z_lower_bound",
                                       "_z_hat_bound", "_z_hat_positive", "_z_hat_negative",
                                       "_linear_activation"},
                !.relu_nodes = cl.relu_nodes,
                !.linear_nodes = cl.linear_nodes,
                !.q = [index |-> relu, within |-> Binary],
                !.cons = [key \in {<<"_z_lower_bound", i>> : i \in relu} |-> z_lower_bound(key[2])]
                         @@ [key \in {<<"_z_hat_bound", i>> : i \in relu} |-> z_hat_bound(key[2])]
                         @@ [key \in {<<"_z_hat_positive", i>> : i \in relu} |-> z_hat_positive(key[2], M)]
                         @@ [key \in {<<"_z_hat_negative", i>> : i \in relu} |-> z_hat_negative(key[2], M)]
                         @@ [key \in {<<"_linear_activation", i>> : i \in lin} |-> linear_activation(key[2])]
                         @@ @]]

\* a complementarity pair written on z + zhat
complements_sum(i) ==
    [c1 |-> Constraint(Sum(<<Var("z", i), Var("zhat", i)>>), ">=", Const(0)),
     c2 |-> Constraint(Var("z", i), ">=", Const(0))]

\* mpec.complements((z - zhat) >= 0, z >= 0)
complements(i) ==
    [c1 |-> Constraint(Sub(Var("z", i), Var("zhat", i)), ">=", Const(0)),
     c2 |-> Constraint(Var("z", i), ">=", Const(0))]

\* a complementarity condition after the mpec.simple_nonlinear transformation:
\* both inequalities, and the product of their slacks at most mpec_bound
SatComplements(cc, bound, v) ==
    /\ Sat(cc.c1, v)
    /\ Sat(cc.c2, v)
    /\ (Eval(cc.c1.lhs, v) - Eval(cc.c1.rhs, v)) * (Eval(cc.c2.lhs, v) - Eval(cc.c2.rhs, v)) <= bound

\* the loop sorting block.hidden_output_nodes into linear, relu and nonlinear nodes
RECURSIVE ClassifyCompl(_, _, _, _)
ClassifyCompl(activations, nodes, k, acc) ==
    IF k > Len(nodes) THEN acc
    ELSE LET i == nodes[k] IN
         ClassifyCompl(activations, nodes, k + 1,
            IF IsLinearSpec(activations, i)
              THEN [acc EXCEPT !.linear_nodes = Append(@, i)]
            ELSE IF activations[i] = "relu"
              THEN [acc EXCEPT !.relu_nodes = Append(@, i)]
            ELSE [acc EXCEPT !.nonlinear_nodes = Append(@, i)])

\* one pass of `for i in block.nonlinear_nodes`: the constraint written, or the error.
\* A softmax node with no layer group divides by sum(()) = 0: depending on the
\* Pyomo release that raises ZeroDivisionError (div0_raises) or builds the quotient.
NonlinearActivation(n, i, div0_raises) ==
    LET act == n.activations[i]
        layer_zhat == IF i \in DOMAIN n.layer_node_ids
                        THEN [k \in 1..Len(n.layer_node_ids[i]) |-> Var("zhat", n.layer_node_ids[i][k])]
                        ELSE <<>>
        lhs == Var("z", i)
    IN  IF IsStr(act)
          THEN IF act \notin pyomo_activations
                 THEN [raised |-> "KeyError", con |-> Constraint(lhs, "==", lhs)]
               ELSE IF act = "softmax" /\ Len(layer_zhat) = 0 /\ div0_raises
                 THEN [raised |-> "ZeroDivisionError", con |-> Constraint(lhs, "==", lhs)]
               ELSE [raised |-> "none",
                     con |-> Constraint(lhs, "==", AFunc(act, Var("zhat", i), layer_zhat))]
          ELSE [raised |-> "none",
                con |-> Constraint(lhs, "==", Fn(PyCallable, <<Var("zhat", i)>> \o layer_zhat))]

RECURSIVE NonlinearLoop(_, _, _, _, _)
NonlinearLoop(n, nodes, k, acc, div0_raises) ==
    IF k > Len(nodes) \/ acc.raised # "none" THEN acc
    ELSE LET r == NonlinearActivation(n, nodes[k], div0_raises) IN
         NonlinearLoop(n, nodes, k + 1,
            IF r.raised # "none" THEN [acc EXCEPT !.raised = r.raised]
            ELSE [acc EXCEPT !.cons = (<<"_nonlinear_activation", nodes[k]>> :> r.con) @@ @],
            div0_raises)

build_relu_complementarity_formulation(b0, n, mpec_bound, div0_raises) ==
    LET b1 == build_full_space_formulation(b0, n)
        cl == ClassifyCompl(n.activations, b1.hidden_output_nodes, 1,
                 [linear_nodes |-> <<>>, relu_nodes |-> <<>>, nonlinear_nodes |-> <<>>])
        relu == Elems(cl.relu_nodes)
        lin == Elems(cl.linear_nodes)
        b2 == [b1 EXCEPT
                !.components = @ \cup {"relu_nodes", "linear_nodes", "nonlinear_nodes",
                                       "_complementarity", "_linear_activation",
                                       "_nonlinear_activation"},
                !.relu_nodes = cl.relu_nodes,
                !.linear_nodes = cl.linear_nodes,
                !.nonlinear_nodes = cl.nonlinear_nodes,
                !.complementarity = [i \in relu |-> complements(i)],
                !.mpec_bound = mpec_bound,
                !.cons = [key \in {<<"_linear_activation", i>> : i \in lin} |-> linear_activation(key[2])]
                         @@ @]
        nl == NonlinearLoop(n, cl.nonlinear_nodes, 1, [cons |-> b2.cons, raised |-> "none"],
                            div0_raises)
    IN  [block |-> [b2 EXCEPT !.cons = nl.cons], raised |-> nl.raised]

\* what a node of a network may carry as its activation
ActivationSpecs ==
    {PyNone, "linear", "relu", "tanh", "sigmoid", "softplus", "softmax", "elu", PyCallable}

\* the networks handed to the ReLU builders: one input and a chain of N
\* non-input nodes, any of which may carry an activation, with or without
\* the layer groups
ChainNet(N, acts, groups) ==
    NetworkDefinition(1, N - 1, 1,
        [i \in 1..N |-> [j \in {i - 1} |-> 1]],
        [i \in 1..N |-> 0],
        acts,
        IF groups THEN [i \in 1..N |-> <<i>>] ELSE <<>>)

ReluNetworks ==
    UNION { { ChainNet(N, acts, g) :
                acts \in UNION {[S -> ActivationSpecs] : S \in SUBSET (1..N)}, g \in BOOLEAN } :
            N \in 1..MaxReluNodes }

\* the Big-M constants a caller may pass
MValues == (-1)..MaxM

NoCall == [fn |-> "none", M |-> 0, raised |-> "none"]

IdleRelu ==
    /\ network_structure = ChainNet(1, <<>>, FALSE)
    /\ block = FreshBlock
    /\ rcall = NoCall

\* a call build_relu_mip_formulation(block, network_structure, M) on a fresh block
BuildMip ==
    /\ rcall.fn = "none"
    /\ \E M \in MValues :
        LET r == build_relu_mip_formulation(block, network_structure, M) IN
        /\ block' = r.block
        /\ rcall' = [fn |-> "build_relu_mip_formulation", M |-> M, raised |-> r.raised]
    /\ UNCHANGED <<nn, net, network_structure, defn, nblock, ncall>>

\* a call build_relu_complementarity_formulation(block, network_structure) on a fresh block
BuildComplementarity ==
    /\ rcall.fn = "none"
    /\ \E div0_raises \in BOOLEAN :
        LET r == build_relu_complementarity_formulation(block, network_structure, MpecBound,
                                                        div0_raises) IN
        /\ block' = r.block
        /\ rcall' = [fn |-> "build_relu_complementarity_formulation", M |-> 0, raised |-> r.raised]
    /\ UNCHANGED <<nn, net, network_structure, defn, nblock, ncall>>

\* ------------------------------------------------ pyoml/opt/neuralnet.py
\* NeuralNetInterface.__init__ (through the subclass's __init__, which keeps
\* its activation)
NewDefinition(cls, activation) ==
    [cls |-> cls, activation |-> activation,
     num_nodes |-> 0, num_inputs |-> 0, num_outputs |-> 0, w |-> <<>>, b |-> <<>>]

\* BigMReLU.__init__(bigm, leaky_alpha=None); any other leaky_alpha raises
\* NotImplementedError and constructs nothing
NewBigMReLU(bigm) ==
    [cls |-> "BigMReLU", M |-> bigm, leaky_alpha |-> PyNone,
     num_nodes |-> 0, num_inputs |-> 0, num_outputs |-> 0, w |-> <<>>, b |-> <<>>]

Len_(d) == Cardinality(DOMAIN d)

\* the three asserts of set_weights
SetWeightsChecks(w, b, n_inputs, n_outputs, n_nodes) ==
    /\ n_nodes >= n_inputs
    /\ Len_(w) = n_nodes + n_outputs - n_inputs
    /\ Len_(b) = n_nodes + n_outputs - n_inputs

\* a set_weights that stores w and b before it checks them
set_weights_store_first(self, w, b, n_inputs, n_outputs, n_nodes) ==
    IF ~(n_nodes >= n_inputs /\ Cardinality(DOMAIN w) = n_nodes + n_outputs - n_inputs
         /\ Cardinality(DOMAIN b) = n_nodes + n_outputs - n_inputs)
      THEN [self |-> [self EXCEPT !.w = w, !.b = b], raised |-> "AssertionError"]
      ELSE [raised |-> "none",
            self |-> [self EXCEPT !.w = w, !.b = b,
                                  !.num_inputs = n_inputs, !.num_outputs = n_outputs,
                                  !.num_nodes = Cardinality(DOMAIN w) - n_outputs + n_inputs]]

\* set_weights(self, w, b, n_inputs, n_outputs, n_nodes): the definition after
\* the call and what the call raised
set_weights(self, w, b, n_inputs, n_outputs, n_nodes) ==
    IF ~SetWeightsChecks(w, b, n_inputs, n_outputs, n_nodes)
      THEN [self |-> self, raised |-> "AssertionError"]
      ELSE [raised |-> "none",
            self |-> [self EXCEPT !.w = w, !.b = b,
                                  !.num_inputs = n_inputs, !.num_outputs = n_outputs,
                                  !.num_nodes = Len_(w) - n_outputs + n_inputs]]

\* _keras_sequential_to_dict(keras_model): the dicts w and b of the importer
\* contract, one entry per node the layers produce, ids counted on from the
\* inputs, a node's predecessors the ids of the layer before
keras_sequential_to_dict(m) ==
    LET st == LoadLayers([node_id_offset |-> m[1].shape[1], layer_offset |-> 0,
                          w |-> <<>>, b |-> <<>>, a |-> <<>>, layer_node_ids |-> <<>>], m, 1)
    IN  [w |-> st.w, b |-> st.b]

\* keras_model.get_weights(): kernel and bias of every layer, in layer order
model_get_weights(m) ==
    [k \in 1..(2 * Len(m)) |-> get_weights(m[(k + 1) \div 2])[IF k % 2 = 1 THEN 1 ELSE 2]]

\* len() of a kernel (its rows) and of a bias vector
LenKernel(W) == Cardinality({ji[1] : ji \in DOMAIN W})
LenBias(B) == Cardinality(DOMAIN B)

\* set_weights_keras(self, keras_model)
set_weights_keras(self, m) ==
    LET wb == keras_sequential_to_dict(m)
        n_inputs == LenKernel(model_get_weights(m)[1])
        n_outputs == LenBias(model_get_weights(m)[Len(model_get_weights(m))])
        n_nodes == Len_(wb.w) - self.num_outputs + self.num_inputs
        r == set_weights(self, wb.w, wb.b, n_inputs, n_outputs, n_nodes)
    IN  [self |-> r.self, raised |-> r.raised, w |-> wb.w, b |-> wb.b,
         n_inputs |-> n_inputs, n_outputs |-> n_outputs, n_nodes |-> n_nodes]

\* _check_weights
check_weights(self) == IF self.w = <<>> THEN "ValueError" ELSE "none"

\* ---- the variables a caller may bind
NoneArg == [type |-> "None", name |-> "", size |-> 0, items |-> <<>>]
ScalarVar(name) == [type |-> "ScalarVar", name |-> name, size |-> 1, items |-> <<>>]
IndexedVar(name, n) == [type |-> "IndexedVar", name |-> name, size |-> n, items |-> <<>>]
PyList(items) == [type |-> "list", name |-> "", size |-> Len(items), items |-> items]
PyTuple(items) == [type |-> "tuple", name |-> "", size |-> Len(items), items |-> items]

\* v.values() of an indexed variable, v itself for a scalar one
VarData(v) ==
    IF v.type = "IndexedVar" THEN [k \in 1..v.size |-> Var(v.name, k - 1)]
    ELSE <<Var(v.name, 0)>>

RECURSIVE Flatten(_)
Flatten(items) ==
    IF Len(items) = 0 THEN <<>> ELSE VarData(items[1]) \o Flatten(Tail(items))

\* _extract_var_data(vars)
extract_var_data(v) ==
    CASE v.type = "ScalarVar" -> [raised |-> "none", list |-> VarData(v)]
      [] v.type = "IndexedVar" -> [raised |-> "none", list |-> VarData(v)]
      [] v.type = "list" -> [raised |-> "none", list |-> Flatten(v.items)]
      [] OTHER -> [raised |-> "ValueError", list |-> <<>>]

\* NeuralBlockData.__init__
NewBlock ==
    [network_defn |-> "None", inputs_set |-> <<>>, outputs_set |-> <<>>,
     inputs |-> <<>>, inputs_list |-> <<>>, outputs |-> <<>>, outputs_list |-> <<>>,
     components |-> {}, INPUTS |-> <<>>, OUTPUTS |-> <<>>, x |-> <<>>, y |-> <<>>,
     q |-> [index |-> {}, within |-> {}], cons |-> <<>>, builds |-> 0]

\* dict(zip(keys, values))
DictZip(keys, values) ==
    LET n == IF Len(keys) < Len(values) THEN Len(keys) ELSE Len(values)
    IN  [key \in {keys[k] : k \in 1..n} |-> values[CHOOSE k \in 1..n : keys[k] = key]]

\* sum(w[i][j]*term(j) for j in w[i]) + b[i]
AffineSum(w, b, i, term) ==
    Sum(<<Sum([k \in 1..Len(Keys(w[i])) |-> Mul(Const(w[i][Keys(w[i])[k]]), term[Keys(w[i])[k]])]),
          Const(b[i])>>)

\* every dict lookup build_neural_net makes finds its key
FullSpaceLookupsOk(n_inputs, n_outputs, n_nodes, w, b) ==
    \A i \in n_inputs..(n_nodes + n_outputs - 1) :
        /\ i \in DOMAIN w /\ i \in DOMAIN b
        /\ \A j \in DOMAIN w[i] : j \in 0..(n_nodes - 1)

\* build_neural_net(block, n_inputs, n_outputs, n_nodes, w, b)
build_neural_net(blk, n_inputs, n_outputs, n_nodes, w, b) ==
    LET NODES == Range(0, n_nodes)
        INTERMEDIATE_NODES == Range(n_inputs, n_nodes)
        INPUTS == blk.inputs_set
        OUTPUTS == [k \in 1..Len(blk.outputs_set) |-> blk.outputs_set[k] + n_nodes]
        x == DictZip(INPUTS, blk.inputs)
        y == DictZip(OUTPUTS, blk.outputs)
        z == [j \in 0..(n_nodes - 1) |-> Var("z", j)]
        b1 == [blk EXCEPT
                 !.components = @ \cup {"NODES", "INTERMEDIATE_NODES", "INPUTS", "OUTPUTS",
                                        "x", "y", "zhat", "z"},
                 !.INPUTS = INPUTS, !.OUTPUTS = OUTPUTS, !.x = x, !.y = y]
    IN  IF ~FullSpaceLookupsOk(n_inputs, n_outputs, n_nodes, w, b)
          THEN [block |-> b1, raised |-> "KeyError"]
          ELSE [raised |-> "none",
                block |-> [b1 EXCEPT
                  !.components = @ \cup {"_inputs", "_linear", "_outputs"},
                  !.cons = [key \in {<<"_inputs", i>> : i \in Elems(INPUTS)} |->
                                Constraint(Var("z", key[2]), "==", x[key[2]])]
                           @@ [key \in {<<"_linear", i>> : i \in Elems(INTERMEDIATE_NODES)} |->
                                Constraint(Var("zhat", key[2]), "==", AffineSum(w, b, key[2], z))]
                           @@ [key \in {<<"_outputs", i>> : i \in Elems(OUTPUTS)} |->
                                Constraint(y[key[2]], "==", AffineSum(w, b, key[2], z))]
                           @@ @]]

\* FullSpaceNonlinear._add_activation_constraint
z_activation(self, i) ==
    Constraint(Var("z", i), "==", Fn(self.activation, <<Var("zhat", i)>>))

\* FullSpaceNonlinear.build
FullSpaceNonlinear_build(self, blk) ==
    IF check_weights(self) # "none" THEN [block |-> blk, raised |-> check_weights(self)]
    ELSE LET r == build_neural_net(blk, self.num_inputs, self.num_outputs, self.num_nodes,
                                   self.w, self.b)
         IN  IF r.raised # "none" THEN r
             ELSE [raised |-> "none",
                   block |-> [r.block EXCEPT
                      !.components = @ \cup {"_z_activation"},
                      !.cons = [key \in {<<"_z_activation", i>> :
                                            i \in self.num_inputs..(self.num_nodes - 1)} |->
                                    z_activation(self, key[2])] @@ @]]

\* an encoding that leaves out the bound z >= zhat
BigM_z_zhat_bound_dropped(i) == Constraint(Var("z", i), ">=", Const(0))

\* BigMReLU._add_activation_constraint: the four constraints of node i
BigM_z_lower_bound(i) == Constraint(Var("z", i), ">=", Const(0))
BigM_z_zhat_bound(i) == Constraint(Var("z", i), ">=", Var("zhat", i))
BigM_z_hat_positive(self, i) ==
    Constraint(Var("z", i), "<=", Sum(<<Var("zhat", i), Mul(Const(self.M), Var("q", i))>>))
BigM_z_hat_negative(self, i) ==
    Constraint(Var("z", i), "<=", Mul(Const(self.M), Sub(Const(1), Var("q", i))))

\* BigMReLU.build
BigMReLU_build(self, blk) ==
    IF check_weights(self) # "none" THEN [block |-> blk, raised |-> check_weights(self)]
    ELSE LET r == build_neural_net(blk, self.num_inputs, self.num_outputs, self.num_nodes,
                                   self.w, self.b)
             INTERMEDIATE_NODES == self.num_inputs..(self.num_nodes - 1)
         IN  IF r.raised # "none" THEN r
             ELSE [raised |-> "none",
                   block |-> [r.block EXCEPT
                      !.components = @ \cup {"q", "_z_lower_bound", "_z_zhat_bound",
                                             "_z_hat_positive", "_z_hat_negative"},
                      !.q = [index |-> INTERMEDIATE_NODES, within |-> Binary],
                      !.cons = [key \in {<<"_z_lower_bound", i>> : i \in INTERMEDIATE_NODES} |->
                                    BigM_z_lower_bound(key[2])]
                               @@ [key \in {<<"_z_zhat_bound", i>> : i \in INTERMEDIATE_NODES} |->
                                    BigM_z_zhat_bound(key[2])]
                               @@ [key \in {<<"_z_hat_positive", i>> : i \in INTERMEDIATE_NODES} |->
                                    BigM_z_hat_positive(self, key[2])]
                               @@ [key \in {<<"_z_hat_negative", i>> : i \in INTERMEDIATE_NODES} |->
                                    BigM_z_hat_negative(self, key[2])]
                               @@ @]]

\* what node i's predecessor `node` contributes to i's expression, given the
\* expression z_from built for it
PredecessorTerm(self, blk, i, node, z_from) ==
    IF i \in Elems(blk.OUTPUTS) THEN z_from
    ELSE Fn(self.activation, <<z_from>>)

\* every dict lookup _unpack_nn_expression makes, from node i down, finds its key
RECURSIVE UnpackLookupsOk(_, _, _)
UnpackLookupsOk(self, blk, i) ==
    /\ i \in DOMAIN self.w /\ i \in DOMAIN self.b
    /\ \A node \in DOMAIN self.w[i] :
          IF node \in DOMAIN self.w THEN node < i /\ UnpackLookupsOk(self, blk, node)
          ELSE node \in DOMAIN blk.x

\* ReducedSpaceNonlinear._unpack_nn_expression(block, i)
RECURSIVE unpack_nn_expression(_, _, _)
unpack_nn_expression(self, blk, i) ==
    LET z_from(node) == IF node \in DOMAIN self.w
                          THEN unpack_nn_expression(self, blk, node)
                          ELSE blk.x[node]
        term == [j \in DOMAIN self.w[i] |-> PredecessorTerm(self, blk, i, j, z_from(j))]
    IN  AffineSum(self.w, self.b, i, term)

\* ReducedSpaceNonlinear.build
ReducedSpaceNonlinear_build(self, blk) ==
    IF check_weights(self) # "none" THEN [block |-> blk, raised |-> check_weights(self)]
    ELSE LET INPUTS == blk.inputs_set
             OUTPUTS == [k \in 1..Len(blk.outputs_set) |-> blk.outputs_set[k] + self.num_nodes]
             b1 == [blk EXCEPT
                      !.components = @ \cup {"INPUTS", "OUTPUTS", "x", "y"},
                      !.INPUTS = INPUTS, !.OUTPUTS = OUTPUTS,
                      !.x = DictZip(INPUTS, blk.inputs), !.y = DictZip(OUTPUTS, blk.outputs)]
         IN  IF \E i \in Elems(OUTPUTS) : ~UnpackLookupsOk(self, b1, i)
               THEN [block |-> b1, raised |-> "KeyError"]
               ELSE [raised |-> "none",
                     block |-> [b1 EXCEPT
                        !.components = @ \cup {"_neural_net_constraint"},
                        !.cons = [key \in {<<"_neural_net_constraint", i>> : i \in Elems(OUTPUTS)} |->
                                     Constraint(b1.y[key[2]], "==",
                                                unpack_nn_expression(self, b1, key[2]))] @@ @]]

\* self._network_defn.build(self): one invocation of the definition's build
build(self, blk) ==
    LET b1 == [blk EXCEPT !.builds = @ + 1]
    IN  CASE self.cls = "FullSpaceNonlinear" -> FullSpaceNonlinear_build(self, b1)
          [] self.cls = "ReducedSpaceNonlinear" -> ReducedSpaceNonlinear_build(self, b1)
          [] self.cls = "BigMReLU" -> BigMReLU_build(self, b1)

\* a define_network that never checks the count
CountMatchesAlways(list, n) == TRUE

\* the `assert len(list) == n` of define_network
CountMatches(list, n) == Len(list) = n

\* one of the two symmetric halves of define_network: bind the caller's symbols
\* or allocate fresh variables named own
BindSymbols(vars_arg, index_set, n, own) ==
    IF vars_arg.type = "None"
      THEN [raised |-> "none",
            values |-> [k \in 1..Len(index_set) |-> Var(own, index_set[k])],
            list |-> index_set]
      ELSE LET e == extract_var_data(vars_arg) IN
           IF e.raised # "none" THEN [raised |-> e.raised, values |-> <<>>, list |-> <<>>]
           ELSE IF ~CountMatches(e.list, n)
             THEN [raised |-> "AssertionError", values |-> <<>>, list |-> e.list]
           ELSE [raised |-> "none", values |-> e.list, list |-> e.list]

\* NeuralBlockData.define_network(network_definition=self, input_vars, output_vars)
define_network(blk, self, input_vars, output_vars) ==
    LET b0 == [blk EXCEPT !.network_defn = self.cls,
                          !.inputs_set = Range(0, self.num_inputs),
                          !.outputs_set = Range(0, self.num_outputs),
                          !.components = @ \cup {"inputs_set", "outputs_set"}]
        i == BindSymbols(input_vars, b0.inputs_set, self.num_inputs, "inputs")
        b1 == [b0 EXCEPT !.inputs_list = i.list]
        b2 == [b1 EXCEPT !.inputs = i.values, !.components = @ \cup {"inputs"}]
        o == BindSymbols(output_vars, b0.outputs_set, self.num_outputs, "outputs")
        b3 == [b2 EXCEPT !.outputs_list = o.list]
        b4 == [b3 EXCEPT !.outputs = o.values, !.components = @ \cup {"outputs"}]
    IN  IF i.raised # "none" THEN [block |-> IF i.raised = "AssertionError" THEN b1 ELSE b0,
                                   raised |-> i.raised]
        ELSE IF o.raised # "none" THEN [block |-> IF o.raised = "AssertionError" THEN b3 ELSE b2,
                                        raised |-> o.raised]
        ELSE build(self, b4)

\* ---- the callers
DefinitionClasses == {"FullSpaceNonlinear", "ReducedSpaceNonlinear"}

\* the scalar activations a definition is constructed with
DefinitionActivations == {"hardtanh", "square"}

\* layer widths, input layer first, of the networks a caller defines
Shapes == {<<1, 1>>, <<2, 1>>, <<1, 1, 1>>, <<2, 1, 1>>, <<1, 2, 1>>, <<2, 2, 2>>}
Coefs == {1, 2}
Biases == {0, 1}

RECURSIVE SumWidths(_, _)
SumWidths(shape, k) == IF k = 0 THEN 0 ELSE shape[k] + SumWidths(shape, k - 1)

\* the layer (1 = inputs) of node id in a network of this shape
LayerOf(shape, id) == CHOOSE l \in 1..Len(shape) : SumWidths(shape, l - 1) <= id /\ id < SumWidths(shape, l)

\* the arguments of set_weights for the dense layered network of a shape, with
\* one coefficient per layer and one bias: n_nodes counts inputs and hidden nodes
LayeredNet(shape, coef, bias) ==
    LET total == SumWidths(shape, Len(shape))
        n_inputs == shape[1]
        n_outputs == shape[Len(shape)]
    IN  [n_inputs |-> n_inputs, n_outputs |-> n_outputs, n_nodes |-> total - n_outputs,
         w |-> [i \in n_inputs..(total - 1) |->
                  [j \in SumWidths(shape, LayerOf(shape, i) - 2)..(SumWidths(shape, LayerOf(shape, i) - 1) - 1)
                     |-> coef[LayerOf(shape, i) - 1]]],
         b |-> [i \in n_inputs..(total - 1) |-> bias]]

LayeredNets ==
    UNION { { LayeredNet(shape, coef, bias) : coef \in [1..(Len(shape) - 1) -> Coefs], bias \in Biases } :
            shape \in Shapes }

\* a dict without its last key
DropLast(d) ==
    [k \in {x \in DOMAIN d : \E y \in DOMAIN d : y > x} |-> d[k]]

\* what a caller may bind as input or output symbols
VarArgs(name, other) ==
    {NoneArg, ScalarVar(name), PyList(<<IndexedVar(name, 1), ScalarVar(other)>>),
     PyTuple(<<ScalarVar(name)>>)}
    \cup {IndexedVar(name, n) : n \in 1..MaxVars}

\* the bigm a BigMReLU definition is constructed with: one below some of the
\* worked network's pre-activations, one above them all
BigMs == {MaxIn - 2, 2 * MaxIn + 1}

FirstCall == [fn |-> "none", n |-> 0, len_w |-> 0, len_b |-> 0,
              n_inputs |-> 0, n_outputs |-> 0, n_nodes |-> 0,
              input_vars |-> NoneArg, output_vars |-> NoneArg, raised |-> "none"]

IdleDefn ==
    /\ defn = NewDefinition("FullSpaceNonlinear", "hardtanh")
    /\ nblock = NewBlock
    /\ ncall = FirstCall

\* a call defn.set_weights(w, b, n_inputs, n_outputs, n_nodes): the arguments
\* describe a layered network, or are off by one in a count or short of a bias.
\* An error propagates to the caller, who makes no further call: the
\* definition is then as it was before the failed call.
SetWeights ==
    /\ nblock.network_defn = "None"
    /\ ncall.n < MaxCalls
    /\ ncall.raised = "none"
    /\ \E n \in LayeredNets, d \in [1..3 -> {0, 1}], short \in BOOLEAN :
        LET b == IF short THEN DropLast(n.b) ELSE n.b
            n_inputs == n.n_inputs + d[1]
            n_outputs == n.n_outputs + d[2]
            n_nodes == n.n_nodes + d[3]
            r == set_weights(defn, n.w, b, n_inputs, n_outputs, n_nodes)
        IN  /\ Cardinality({k \in 1..3 : d[k] # 0}) <= 1 \/ (d[1] = 1 /\ d[2] = 0 /\ d[3] = 1)
            /\ n_inputs >= 0 /\ n_outputs >= 0 /\ n_nodes >= 0
            /\ defn' = r.self
            /\ ncall' = [FirstCall EXCEPT !.fn = "set_weights", !.n = ncall.n + 1,
                            !.len_w = Len_(n.w), !.len_b = Len_(b),
                            !.n_inputs = n_inputs, !.n_outputs = n_outputs, !.n_nodes = n_nodes,
                            !.raised = r.raised]
    /\ UNCHANGED <<nn, net, network_structure, block, rcall, nblock>>

\* the Sequential models a caller hands to set_weights_keras
WeightModels ==
    UNION { { [k \in 1..L |-> DenseLayer(k, IF k = 1 THEN n0 ELSE ws[k - 1], ws[k], "linear")] :
                n0 \in 1..MaxKerasWidth, ws \in [1..L -> 1..MaxKerasWidth] } :
            L \in 1..MaxKerasLayers }

\* a call defn.set_weights_keras(keras_model) with a Sequential model of dense
\* layers, by a caller whose calls so far succeeded
SetWeightsKeras ==
    /\ nblock.network_defn = "None"
    /\ ncall.n < MaxCalls
    /\ ncall.raised = "none"
    /\ \E m \in WeightModels :
        LET r == set_weights_keras(defn, m) IN
        /\ defn' = r.self
        /\ ncall' = [FirstCall EXCEPT !.fn = "set_weights_keras", !.n = ncall.n + 1,
                        !.len_w = Len_(r.w), !.len_b = Len_(r.b),
                        !.n_inputs = r.n_inputs, !.n_outputs = r.n_outputs,
                        !.n_nodes = r.n_nodes, !.raised = r.raised]
    /\ UNCHANGED <<nn, net, network_structure, block, rcall, nblock>>

\* a call nblock.define_network(network_definition=defn, input_vars=..., output_vars=...)
\* on a block no network was defined on, by a caller whose calls so far succeeded
DefineNetwork ==
    /\ nblock.network_defn = "None"
    /\ ncall.raised = "none"
    /\ \E iv \in VarArgs("u", "s"), ov \in VarArgs("v", "t") :
        LET r == define_network(nblock, defn, iv, ov) IN
        /\ nblock' = r.block
        /\ ncall' = [FirstCall EXCEPT !.fn = "define_network",
                        !.input_vars = iv, !.output_vars = ov, !.raised = r.raised]
    /\ UNCHANGED <<nn, net, network_structure, block, rcall, defn>>

\* ------------------------------------------------------------ specifications
Init == IdleImporter /\ IdleRelu /\ IdleDefn
NextImporter == LoadKeras
SpecImporter == Init /\ [][NextImporter]_vars

InitRelu ==
    /\ IdleImporter /\ IdleDefn
    /\ network_structure \in ReluNetworks
    /\ block = FreshBlock
    /\ rcall = NoCall
NextRelu == BuildMip \/ BuildComplementarity
SpecRelu == InitRelu /\ [][NextRelu]_vars

\* a definition is constructed with its class and activation
InitDefn ==
    /\ IdleImporter /\ IdleRelu
    /\ defn \in {NewDefinition(cls, a) : cls \in DefinitionClasses, a \in DefinitionActivations}
    /\ nblock = NewBlock
    /\ ncall = FirstCall
NextDefn == SetWeights \/ DefineNetwork
SpecDefn == InitDefn /\ [][NextDefn]_vars

\* a BigMReLU definition is constructed with its bigm
InitBigM ==
    /\ IdleImporter /\ IdleRelu
    /\ defn \in {NewBigMReLU(bigm) : bigm \in BigMs}
    /\ nblock = NewBlock
    /\ ncall = FirstCall
SpecBigM == InitBigM /\ [][NextDefn]_vars

\* the calls that set a definition's weights
NextKeras == SetWeights \/ SetWeightsKeras
SpecKeras == InitDefn /\ [][NextKeras]_vars

Next == NextImporter \/ NextRelu \/ NextDefn \/ SetWeightsKeras
Spec == Init /\ [][Next]_vars

\* ------------------------------------------------------------------ claims
\* the ids of the nodes made from layer k of nn: a node's bias entry names its layer
ProducedIds(k) == {id \in DOMAIN net.biases : net.biases[id][2] = k}

RECURSIVE SumOutputSizes(_, _)
SumOutputSizes(m, k) == IF k = 0 THEN 0 ELSE m[k].shape[2] + SumOutputSizes(m, k - 1)

Loaded == nn # <<>>

\* C4: a loaded network has n_inputs + (sum of the layers' output sizes) nodes,
\* n_hidden + n_inputs + n_outputs is that count, and the last layer's nodes
\* carry exactly the trailing ids [n_nodes - n_outputs, n_nodes).
C4_NodeCountAndOutputIds ==
    Loaded =>
        LET n_nodes == net.n_inputs + Cardinality(DOMAIN net.weights)
        IN  /\ net.n_inputs = nn[1].shape[1]
            /\ n_nodes = nn[1].shape[1] + SumOutputSizes(nn, Len(nn))
            /\ net.n_hidden + net.n_inputs + net.n_outputs = n_nodes
            /\ net.n_hidden >= 0
            /\ DOMAIN net.weights = net.n_inputs..(n_nodes - 1)
            /\ ProducedIds(Len(nn)) = (n_nodes - net.n_outputs)..(n_nodes - 1)

C4_Witness ==
    /\ Loaded /\ Len(nn) = 3
    /\ nn[3].shape[1] # nn[3].shape[2]
    /\ net.n_hidden > 0

\* C5: the predecessors of a node made from layer k are exactly the ids made
\* from layer k-1 (the inputs [0, n_inputs) for the first layer), each smaller
\* than the node's own id.
C5_PredecessorsArePreviousLayer ==
    Loaded =>
        \A k \in 1..Len(nn) : \A id \in ProducedIds(k) :
            /\ DOMAIN net.weights[id] =
                   (IF k = 1 THEN 0..(net.n_inputs - 1) ELSE ProducedIds(k - 1))
            /\ \A j \in DOMAIN net.weights[id] : j < id

C5_Witness ==
    /\ Loaded /\ Len(nn) = 3
    /\ nn[1].shape[1] # nn[1].shape[2]
    /\ nn[2].shape[1] # nn[2].shape[2]
    /\ \E id \in ProducedIds(3) : DOMAIN net.weights[id] = ProducedIds(2)

\* ---- relu.py
MipCall == rcall.fn = "build_relu_mip_formulation"
ComplCall == rcall.fn = "build_relu_complementarity_formulation"

\* the values a node's z and zhat are tried at
Values == (-MaxAbs)..MaxAbs

Max0(x) == IF x > 0 THEN x ELSE 0

\* the valuation giving node i the values z, zhat and q
Point(i, z, zhat, q) == (<<"z", i>> :> z) @@ (<<"zhat", i>> :> zhat) @@ (<<"q", i>> :> q)

\* the constraints of the block written over relu_nodes, at node i
ReluCons(i) ==
    {block.cons[key] : key \in {k \in DOMAIN block.cons :
        k[2] = i /\ k[1] \in {"_z_lower_bound", "_z_hat_bound", "_z_hat_positive", "_z_hat_negative"}}}

\* some admissible q makes (z, zhat) satisfy every Big-M constraint of node i
BigMFeasible(i, z, zhat) ==
    \E q \in block.q.within : \A c \in ReluCons(i) : Sat(c, Point(i, z, zhat, q))

\* C2: on a block the Big-M builder built with M, for every ReLU node and every
\* zhat with -M < zhat < M, the z for which some q in {0,1} satisfies the four
\* constraints are exactly max(0, zhat).
C2_BigMExact ==
    (MipCall /\ rcall.raised = "none") =>
        \A i \in Elems(block.relu_nodes) :
            /\ Cardinality(ReluCons(i)) = 4
            /\ block.q.within = {0, 1}
            /\ \A zhat \in Values : (-rcall.M < zhat /\ zhat < rcall.M) =>
                   {z \in Values : BigMFeasible(i, z, zhat)} = {Max0(zhat)}

C2_Witness ==
    /\ MipCall /\ rcall.raised = "none" /\ rcall.M = MaxM
    /\ \E i \in Elems(block.relu_nodes) :
          /\ BigMFeasible(i, 0, -1) /\ ~BigMFeasible(i, 1, -1)
          /\ BigMFeasible(i, 1, 1) /\ ~BigMFeasible(i, 0, 1)

\* C3: on a block the complementarity builder built, for every ReLU node and
\* every zhat, the z satisfying (z - zhat) >= 0, z >= 0, (z - zhat)*z = 0 are
\* exactly max(0, zhat).
C3_ComplementarityExact ==
    ComplCall =>
        /\ DOMAIN block.complementarity = Elems(block.relu_nodes)
        /\ \A i \in Elems(block.relu_nodes) : \A zhat \in Values :
              {z \in Values : SatComplements(block.complementarity[i], block.mpec_bound,
                                             Point(i, z, zhat, 0))} = {Max0(zhat)}

C3_Witness ==
    /\ ComplCall
    /\ \E i \in Elems(block.relu_nodes) :
          /\ SatComplements(block.complementarity[i], block.mpec_bound, Point(i, 0, -1, 0))
          /\ SatComplements(block.complementarity[i], block.mpec_bound, Point(i, 1, 1, 0))
          /\ ~SatComplements(block.complementarity[i], block.mpec_bound, Point(i, 2, 1, 0))

\* the non-input nodes whose activation is neither absent/None/'linear' nor 'relu'
OtherNodes ==
    {i \in Elems(block.hidden_output_nodes) :
        ~IsLinearSpec(network_structure.activations, i)
        /\ network_structure.activations[i] # "relu"}

\* the generic nonlinear encoder has a template for node i's activation
Encodable(i) ==
    LET act == network_structure.activations[i] IN
    \/ act = PyCallable
    \/ act \in {"tanh", "sigmoid", "softplus"}
    \/ act = "softmax" /\ i \in DOMAIN network_structure.layer_node_ids

\* z[i] == f(zhat[i], ...) is on the block
EmitsNonlinear(i) ==
    /\ <<"_nonlinear_activation", i>> \in DOMAIN block.cons
    /\ LET c == block.cons[<<"_nonlinear_activation", i>>] IN
         /\ c.lhs = Var("z", i) /\ c.rel = "=="
         /\ c.rhs.op \in {"fn", "div"}

\* C7 as stated: with such a node the Big-M builder raises, and the
\* complementarity builder does not fail: it puts the node in nonlinear_nodes
\* and emits z = f(zhat) for it.
C7_Original ==
    (OtherNodes # {}) =>
        /\ MipCall => rcall.raised = "ValueError"
        /\ ComplCall =>
              /\ rcall.raised = "none"
              /\ \A i \in OtherNodes : i \in Elems(block.nonlinear_nodes) /\ EmitsNonlinear(i)

\* C7 amended: with such a node the Big-M builder raises ValueError; the
\* complementarity builder puts every such node in nonlinear_nodes, and does
\* not fail and emits z = f(zhat) for each of them when each activation is a
\* callable or a name of pyomo_activations (softmax with its layer group);
\* with a name outside pyomo_activations it raises KeyError.
C7_OtherActivations ==
    (OtherNodes # {}) =>
        /\ MipCall => rcall.raised = "ValueError"
        /\ ComplCall =>
              /\ OtherNodes = Elems(block.nonlinear_nodes)
              /\ (\A i \in OtherNodes : Encodable(i)) =>
                    /\ rcall.raised = "none"
                    /\ \A i \in OtherNodes : EmitsNonlinear(i)
              /\ (\A i \in OtherNodes : Encodable(i) \/ network_structure.activations[i] = "elu")
                    /\ (\E i \in OtherNodes : ~Encodable(i))
                    => rcall.raised = "KeyError"

C7_Witness ==
    /\ ComplCall /\ rcall.raised = "none"
    /\ \E i \in OtherNodes : network_structure.activations[i] = "tanh" /\ EmitsNonlinear(i)
    /\ \E i \in OtherNodes : network_structure.activations[i] = PyCallable /\ EmitsNonlinear(i)

\* C9: the Big-M builder takes any M as given, raising nothing on its account
\* and writing that M into the constraints; and for a ReLU node with
\* |zhat| > M no (z, q) satisfies the four constraints, so z = max(0, zhat)
\* is excluded.
C9_SmallMExcludes ==
    MipCall =>
        /\ (OtherNodes = {}) => rcall.raised = "none"
        /\ rcall.raised = "none" =>
              \A i \in Elems(block.relu_nodes) :
                 /\ Consts(block.cons[<<"_z_hat_positive", i>>].rhs) = {rcall.M}
                 /\ Consts(block.cons[<<"_z_hat_negative", i>>].rhs) = {rcall.M, 1}
                 /\ \A zhat \in Values : (zhat > rcall.M \/ -zhat > rcall.M) =>
                        \A z \in Values : ~BigMFeasible(i, z, zhat)

C9_Witness ==
    /\ MipCall /\ rcall.raised = "none" /\ rcall.M = 1
    /\ \E i \in Elems(block.relu_nodes) :
          /\ ~BigMFeasible(i, Max0(2), 2)
          /\ ~BigMFeasible(i, Max0(-2), -2)
          /\ BigMFeasible(i, Max0(1), 1)

\* what build_relu_mip_formulation adds after the sorting loop
MipActivationComponents ==
    {"relu_nodes", "linear_nodes", "q", "_z_lower_bound", "_z_hat_bound",
     "_z_hat_positive", "_z_hat_negative", "_linear_activation"}

\* C12: when build_relu_mip_formulation fails on an unsupported activation, the
\* block holds everything the skip-activation full-space build added (node
\* sets, z and zhat, the input, affine and output constraints) and none of
\* relu_nodes, linear_nodes, q or the ReLU/linear activation constraints.
C12_NoRollback ==
    (MipCall /\ rcall.raised = "ValueError") =>
        /\ block = build_full_space_formulation(FreshBlock, network_structure)
        /\ {"nodes", "hidden_output_nodes", "z", "zhat", "_inputs", "_linear", "_outputs"}
              \subseteq block.components
        /\ Len(block.hidden_output_nodes) = Cardinality(DOMAIN network_structure.weights)
        /\ \A i \in Elems(block.hidden_output_nodes) : <<"_linear", i>> \in DOMAIN block.cons
        /\ block.components \cap MipActivationComponents = {}
        /\ \A key \in DOMAIN block.cons : key[1] \notin MipActivationComponents
        /\ block.relu_nodes = <<>> /\ block.linear_nodes = <<>> /\ block.q.index = {}

C12_Witness ==
    /\ MipCall /\ rcall.raised = "ValueError"
    /\ Len(block.hidden_output_nodes) = 2
    /\ 1 \in DOMAIN network_structure.activations /\ network_structure.activations[1] = "relu"
    /\ 2 \in DOMAIN network_structure.activations /\ network_structure.activations[2] = "tanh"
    /\ <<"_linear", 1>> \in DOMAIN block.cons /\ <<"_linear", 2>> \in DOMAIN block.cons
    /\ "z" \in block.components /\ "q" \notin block.components

\* ---- neuralnet.py
\* C6: a set_weights call with n_nodes < n_inputs, or len(w) or len(b) other
\* than n_nodes + n_outputs - n_inputs, raises, and leaves the definition's w,
\* b, num_inputs, num_outputs and num_nodes as they were.
C6_FailedSetWeightsKeepsState ==
    [][ (/\ ncall'.fn = "set_weights"
         /\ \/ ncall'.n_nodes < ncall'.n_inputs
            \/ ncall'.len_w # ncall'.n_nodes + ncall'.n_outputs - ncall'.n_inputs
            \/ ncall'.len_b # ncall'.n_nodes + ncall'.n_outputs - ncall'.n_inputs)
        => (ncall'.raised = "AssertionError" /\ defn' = defn) ]_vars

C6_Witness ==
    /\ ncall.fn = "set_weights" /\ ncall.raised = "AssertionError" /\ ncall.n = 2
    /\ ncall.n_nodes >= ncall.n_inputs
    /\ ncall.len_w = ncall.n_nodes + ncall.n_outputs - ncall.n_inputs
    /\ ncall.len_b # ncall.len_w
    /\ defn.w # <<>> /\ Len_(defn.b) = Len_(defn.w) /\ Len_(defn.w) # ncall.len_w

\* how many symbols a caller's argument flattens to
RECURSIVE FlatCount(_)
FlatCount(v) ==
    CASE v.type = "ScalarVar" -> 1
      [] v.type = "IndexedVar" -> v.size
      [] v.type = "list" -> SumSeq([k \in 1..Len(v.items) |-> FlatCount(v.items[k])])
      [] OTHER -> 0
Flattens(v) == v.type \in {"ScalarVar", "IndexedVar", "list"}
Mismatch(v, n) == Flattens(v) /\ FlatCount(v) # n
Matches(v, n) == v.type = "None" \/ (Flattens(v) /\ FlatCount(v) = n)

DefineCall == ncall.fn = "define_network"

\* C8 as stated: define_network raises the count error whenever the input
\* symbols or the output symbols flatten to a wrong count, build is then never
\* invoked, and with matching counts (or absent symbols) build is invoked
\* exactly once.
C8_Original ==
    DefineCall =>
        /\ (Mismatch(ncall.input_vars, defn.num_inputs) \/ Mismatch(ncall.output_vars, defn.num_outputs))
              => (ncall.raised = "AssertionError" /\ nblock.builds = 0)
        /\ (Matches(ncall.input_vars, defn.num_inputs) /\ Matches(ncall.output_vars, defn.num_outputs))
              => nblock.builds = 1

\* C8 amended: define_network raises the count error whenever the input
\* symbols flatten to a wrong count, or the input symbols are absent or
\* flatten to n_inputs() and the output symbols flatten to a wrong count;
\* whenever either count is wrong build is never invoked; and with matching
\* counts (or absent symbols) build is invoked exactly once.
C8_DimensionCheckBeforeBuild ==
    DefineCall =>
        /\ Mismatch(ncall.input_vars, defn.num_inputs) => ncall.raised = "AssertionError"
        /\ (Matches(ncall.input_vars, defn.num_inputs) /\ Mismatch(ncall.output_vars, defn.num_outputs))
              => ncall.raised = "AssertionError"
        /\ (Mismatch(ncall.input_vars, defn.num_inputs) \/ Mismatch(ncall.output_vars, defn.num_outputs))
              => nblock.builds = 0
        /\ (Matches(ncall.input_vars, defn.num_inputs) /\ Matches(ncall.output_vars, defn.num_outputs))
              => nblock.builds = 1

C8_Witness ==
    /\ DefineCall /\ defn.w # <<>>
    /\ ncall.input_vars.type = "list" /\ Matches(ncall.input_vars, defn.num_inputs)
    /\ ncall.output_vars.type = "IndexedVar" /\ Mismatch(ncall.output_vars, defn.num_outputs)
    /\ ncall.raised = "AssertionError" /\ nblock.builds = 0
    /\ "inputs" \in nblock.components

\* the reduced-space build went through
ReducedBuilt ==
    DefineCall /\ ncall.raised = "none" /\ defn.cls = "ReducedSpaceNonlinear"

\* the valuation giving the block's k-th input symbol the value xv[k]
InputValuation(blk, xv) ==
    [key \in {<<blk.inputs[k].name, blk.inputs[k].val>> : k \in 1..Len(blk.inputs)} |->
        xv[CHOOSE k \in 1..Len(blk.inputs) : <<blk.inputs[k].name, blk.inputs[k].val>> = key]]

\* the full-space block built from the same w, b and activation and the same symbols
FullSpaceBlock ==
    define_network(NewBlock, [defn EXCEPT !.cls = "FullSpaceNonlinear"],
                   ncall.input_vars, ncall.output_vars).block

\* the values the full-space constraints force, node by node: z of an input
\* from _inputs, then zhat from _linear and z from _z_activation
RECURSIVE ForwardSolve(_, _, _)
ForwardSolve(fb, v, i) ==
    IF i >= defn.num_nodes THEN v
    ELSE IF i < defn.num_inputs
      THEN ForwardSolve(fb, (<<"z", i>> :> Eval(fb.cons[<<"_inputs", i>>].rhs, v)) @@ v, i + 1)
    ELSE LET v1 == (<<"zhat", i>> :> Eval(fb.cons[<<"_linear", i>>].rhs, v)) @@ v
         IN  ForwardSolve(fb, (<<"z", i>> :> Eval(fb.cons[<<"_z_activation", i>>].rhs, v1)) @@ v1,
                          i + 1)

\* ... and the outputs y from _outputs
FullSpaceSolution(fb, xv) ==
    LET v == ForwardSolve(fb, InputValuation(fb, xv), 0)
    IN  [key \in {<<fb.y[o].name, fb.y[o].val>> : o \in Elems(fb.OUTPUTS)} |->
            Eval(fb.cons[<<"_outputs",
                           CHOOSE o \in Elems(fb.OUTPUTS) : <<fb.y[o].name, fb.y[o].val>> = key>>].rhs, v)]
        @@ v

InputPoints == [1..defn.num_inputs -> (-MaxX)..MaxX]

\* C1: for every input, the value of the expression the reduced-space builder
\* writes for an output equals the value the full-space constraints built from
\* the same w, b and activation force on that output.
C1_ReducedEqualsFullSpace ==
    ReducedBuilt =>
        \A xv \in InputPoints :
            LET fb == FullSpaceBlock
                full == FullSpaceSolution(fb, xv)
            IN  (\A key \in DOMAIN fb.cons : Sat(fb.cons[key], full)) =>
                    \A o \in Elems(nblock.OUTPUTS) :
                        Eval(nblock.cons[<<"_neural_net_constraint", o>>].rhs,
                             InputValuation(nblock, xv))
                          = full[<<nblock.y[o].name, nblock.y[o].val>>]

\* the forward-substituted values do satisfy every full-space constraint
FullSpaceSolutionSatisfies ==
    ReducedBuilt =>
        \A xv \in InputPoints :
            \A key \in DOMAIN FullSpaceBlock.cons :
                Sat(FullSpaceBlock.cons[key], FullSpaceSolution(FullSpaceBlock, xv))

\* the expression e is built for node i as C10 describes: the affine sum of
\* i's predecessors, an input predecessor as its bound symbol, a non-input
\* predecessor as the activation of its own expression, built the same way
RECURSIVE BuiltAsClaimed(_, _)
BuiltAsClaimed(e, i) ==
    LET preds == Keys(defn.w[i]) IN
    /\ e.op = "sum" /\ Len(e.args) = 2
    /\ e.args[2] = Const(defn.b[i])
    /\ e.args[1].op = "sum" /\ Len(e.args[1].args) = Len(preds)
    /\ \A k \in 1..Len(preds) :
          LET t == e.args[1].args[k]
              j == preds[k]
          IN  /\ t.op = "mul"
              /\ t.args[1] = Const(defn.w[i][j])
              /\ IF j \notin DOMAIN defn.w
                   THEN t.args[2] = nblock.x[j]
                   ELSE /\ t.args[2].op = "fn"
                        /\ t.args[2].name = defn.activation
                        /\ BuiltAsClaimed(t.args[2].args[1], j)

\* C10: in the expression the reduced-space builder writes for a node, an input
\* predecessor contributes its bound symbol with no activation and a non-input
\* predecessor contributes the activation of its recursively built expression,
\* for hidden and output nodes alike.
C10_PredecessorContributions ==
    ReducedBuilt =>
        \A o \in Elems(nblock.OUTPUTS) :
            BuiltAsClaimed(nblock.cons[<<"_neural_net_constraint", o>>].rhs, o)

\* ---- the worked two-input network under BigMReLU
\* 2 inputs, one hidden node (weights 1, 1, bias 0), one output (weight 2, bias 0)
ScenarioNet == LayeredNet(<<2, 1, 1>>, <<1, 2>>, 0)

ScenarioBuilt ==
    /\ DefineCall /\ ncall.raised = "none" /\ defn.cls = "BigMReLU"
    /\ defn.w = ScenarioNet.w /\ defn.b = ScenarioNet.b
    /\ defn.num_inputs = ScenarioNet.n_inputs /\ defn.num_outputs = ScenarioNet.n_outputs
    /\ defn.num_nodes = ScenarioNet.n_nodes

\* the values a variable of the block may take: a binary q its domain, any
\* other variable a box that holds every value the network can produce
Box == (-(4 * MaxIn + 2))..(4 * MaxIn + 2)
DomainOf(key) == IF key[1] = "q" THEN nblock.q.within ELSE Box

\* the variables written in an expression, and in a constraint
RECURSIVE VarsOf(_)
VarsOf(e) ==
    IF e.op = "var" THEN {<<e.name, e.val>>}
    ELSE UNION {VarsOf(e.args[k]) : k \in 1..Len(e.args)}
ConVars(c) == VarsOf(c.lhs) \cup VarsOf(c.rhs)

\* the block's variables other than the input symbols: z of the inputs, then
\* zhat, q and z of each intermediate node, then the output symbols
RECURSIVE HiddenOrder(_)
HiddenOrder(i) ==
    IF i >= defn.num_nodes THEN <<>>
    ELSE << <<"zhat", i>>, <<"q", i>>, <<"z", i>> >> \o HiddenOrder(i + 1)
OutputKey(k) == <<nblock.outputs[k].name, nblock.outputs[k].val>>
SolveOrder ==
    [k \in 1..defn.num_inputs |-> <<"z", k - 1>>]
    \o HiddenOrder(defn.num_inputs)
    \o [k \in 1..Len(nblock.outputs) |-> OutputKey(k)]

\* every valuation of the variables bound (the set D) and order[k..] that
\* extends one of V and satisfies the constraints: each constraint is tested
\* as soon as all its variables are bound
RECURSIVE Solve(_, _, _, _)
Solve(order, k, D, V) ==
    IF k > Len(order) THEN V
    ELSE LET key == order[k]
             D1 == D \cup {key}
             now == {c \in DOMAIN nblock.cons :
                        key \in ConVars(nblock.cons[c]) /\ ConVars(nblock.cons[c]) \subseteq D1}
         IN  Solve(order, k + 1, D1,
                   {v1 \in {(key :> x) @@ v : v \in V, x \in DomainOf(key)} :
                       \A c \in now : Sat(nblock.cons[c], v1)})

\* the feasible points of the block with its inputs fixed at xv
Feasible(xv) ==
    LET vin == InputValuation(nblock, xv)
    IN  Solve(SolveOrder, 1, DOMAIN vin, {vin})

\* (zhat_hidden, z_hidden, output) at a feasible point
HiddenAndOutput(v) ==
    <<v[<<"zhat", defn.num_inputs>>], v[<<"z", defn.num_inputs>>], v[OutputKey(1)]>>

ScenarioInputs == [1..2 -> (-MaxIn)..MaxIn]

\* C11: on the block BigMReLU builds for the worked network, for every input
\* (x1, x2) with |x1 + x2| < M the feasible points are exactly those with
\* zhat_hidden = x1 + x2, z_hidden = max(0, x1 + x2), output = 2*max(0, x1 + x2);
\* input (3,-5) gives output 0 and input (3,1) gives output 8.
C11_ScenarioBigM ==
    ScenarioBuilt =>
        /\ \A c \in DOMAIN nblock.cons :
              ConVars(nblock.cons[c]) \subseteq
                 Elems(SolveOrder) \cup DOMAIN InputValuation(nblock, <<0, 0>>)
        /\ \A xv \in ScenarioInputs :
              LET s == xv[1] + xv[2] IN
              (-defn.M < s /\ s < defn.M) =>
                  {HiddenAndOutput(v) : v \in Feasible(xv)} = {<<s, Max0(s), 2 * Max0(s)>>}
        /\ defn.M > 2 => {v[OutputKey(1)] : v \in Feasible(<<3, -5>>)} = {0}
        /\ defn.M > 4 => {v[OutputKey(1)] : v \in Feasible(<<3, 1>>)} = {8}

C11_Witness ==
    /\ ScenarioBuilt /\ defn.M = 2 * MaxIn + 1
    /\ ncall.input_vars.type = "IndexedVar"
    /\ \E v \in Feasible(<<3, -5>>) : HiddenAndOutput(v) = <<-2, 0, 0>> /\ v[<<"q", 2>>] = 1
    /\ \E v \in Feasible(<<3, 1>>) : HiddenAndOutput(v) = <<4, 4, 8>> /\ v[<<"q", 2>>] = 0

\* C13: set_weights_keras(model) succeeds after any prior set_weights /
\* set_weights_keras calls, none included, and leaves num_inputs and
\* num_outputs equal to the model's input and output counts and
\* num_nodes = len(w) - num_outputs + num_inputs for the model's w.
C13_KerasCountsFromModel ==
    ncall.fn = "set_weights_keras" =>
        /\ ncall.raised = "none"
        /\ defn.num_inputs = ncall.n_inputs
        /\ defn.num_outputs = ncall.n_outputs
        /\ defn.num_nodes = ncall.len_w - ncall.n_outputs + ncall.n_inputs
        /\ Len_(defn.w) = ncall.len_w

====
